---- MODULE Spec2Model ----
(***************************************************************************)
(* A model of govee2mqtt's device registry polling (src/commands/serve.rs)  *)
(* and of its work-mode capability parser (src/hass_mqtt/work_mode.rs).     *)
(*                                                                         *)
(* Two specifications share the variables:                                 *)
(*   Spec       the serve command: bootstrap, LAN discovery task, poller    *)
(*   SpecParse  ParsedWorkMode::with_device, one loop iteration per step    *)
(***************************************************************************)
EXTENDS Integers, Sequences, FiniteSets, TLC

VARIABLES
    \* ---- serve.rs: ServeCommand::run and the two tasks it spawns ----
    args,            \* which clients the command line configures
    registry,        \* State's device map: identity -> Device
    platform_client, \* State::get_platform_client() is Some
    undoc_client,    \* State's undocumented-API client is set
    lan_client,      \* State's LAN client is set
    now,             \* Utc::now(), seconds since the process started
    run_pc,          \* position of ServeCommand::run
    pending,         \* what is left of the list ServeCommand::run is looping over
    run_err,         \* the call whose error ServeCommand::run returned, or "none"
    handle,          \* the task holding the exclusive handle device_mut gave out
    lan_pc,          \* position of the LAN discovery task
    lan_cur,         \* the LanDevice the discovery task is handling
    poll_pc,         \* position of periodic_state_poll
    wake_at,         \* when the poller's current sleep ends
    snapshot,        \* the Vec<Device> state.devices() returned for this pass
    idx,             \* the device of the snapshot the for loop is at
    cycle_start,     \* when the snapshot of this pass was taken
    fetches,         \* get_device_state calls issued in this pass, per device
    evals,           \* poll_single_device calls made in this pass, per device
    failed,          \* the devices whose get_device_state failed in this pass
    lan_seen,        \* the devices some snapshot so far showed with a lan_device
    \* ---- work_mode.rs: one call of ParsedWorkMode::with_device ----
    pdev,        \* the `device: &ServiceDevice` argument
    ppc,         \* position inside with_device / with_capability
    modes,       \* ParsedWorkMode.modes, the BTreeMap under construction
    presult,     \* what with_device returned: "none" (still running), "ok", or an error
    fed,         \* how much of the enum field the running loop has consumed
    mv_seen,     \* the names of the modeValue options consumed so far
    wm_seen,     \* the workMode options consumed so far: name -> value of the last one
    mv_last,     \* the name of the modeValue option consumed last
    last_call    \* the last add_values call: the option's name and the shape of its
                 \* extras, the options list it pushed, `self` on entry, self.values
                 \* after line 202, `range` of line 204

parse_vars == <<pdev, ppc, modes, presult, fed, mv_seen, wm_seen, mv_last, last_call>>

run_vars == <<args, platform_client, undoc_client, lan_client, run_pc, pending, run_err>>
lan_vars == <<lan_pc, lan_cur>>
poll_vars ==
    <<poll_pc, wake_at, snapshot, idx, cycle_start, fetches, evals, failed, lan_seen>>
serve_vars == <<run_vars, lan_vars, poll_vars, registry, handle, now>>

vars == <<serve_vars, parse_vars>>

(***************************************************************************)
(* Bounds of the model.                                                    *)
(***************************************************************************)
\* most workMode enum options one capability carries
MaxModes == 2
\* largest modeValue field: its enum options plus all their sub-options
MaxInput == 4
\* how many times the clock advances
MaxTicks == 3
\* how many ticks old a timestamp can be told to be when time does not end
MaxAgeTicks == 2

(***************************************************************************)
(* Program constants of serve.rs.                                          *)
(***************************************************************************)
StaleSecs == 900
WarmupSecs == 20
PollSecs == 60
\* the clock advances in steps of the staleness threshold, so that a cloud state is
\* seen at exactly that age and at twice that age
TickSecs == StaleSecs

(***************************************************************************)
(* Option<String>, Option<Range<i64>>, Option<i64> and serde_json::Value.  *)
(***************************************************************************)
NoneStr == [some |-> FALSE, v |-> ""]
SomeStr(s) == [some |-> TRUE, v |-> s]

NoRange == [some |-> FALSE, start |-> 0, end |-> 0]
SomeRange(a, b) == [some |-> TRUE, start |-> a, end |-> b]

NoneInt == [some |-> FALSE, v |-> 0]
SomeInt(i) == [some |-> TRUE, v |-> i]

JsonNull == [kind |-> "null", i |-> 0, s |-> ""]
JsonInt(n) == [kind |-> "int", i |-> n, s |-> ""]
JsonStr(t) == [kind |-> "str", i |-> 0, s |-> t]

\* JsonValue::as_i64: Some for an integer number, None for anything else
as_i64(j) == IF j.kind = "int" THEN SomeInt(j.i) ELSE NoneInt

Digit(d) ==
    CASE d = 0 -> "0" [] d = 1 -> "1" [] d = 2 -> "2" [] d = 3 -> "3" [] d = 4 -> "4"
      [] d = 5 -> "5" [] d = 6 -> "6" [] d = 7 -> "7" [] d = 8 -> "8" [] d = 9 -> "9"

RECURSIVE NatToString(_)
NatToString(n) ==
    IF n < 10 THEN Digit(n) ELSE NatToString(n \div 10) \o Digit(n % 10)

I64ToString(n) == IF n < 0 THEN "-" \o NatToString(-n) ELSE NatToString(n)

\* JsonValue's Display (to_string): the JSON text, so a string keeps its quotes
json_to_string(j) ==
    CASE j.kind = "int" -> I64ToString(j.i)
      [] j.kind = "str" -> "\"" \o j.s \o "\""
      [] OTHER -> "null"

(***************************************************************************)
(* WorkMode and WorkModeValue.                                             *)
(***************************************************************************)
WorkModeValue(value, name, computed_label) ==
    [value |-> value, name |-> name, computed_label |-> computed_label]

\* WorkMode { name, value, ..WorkMode::default() }
WorkMode(name, value) ==
    [name |-> name, value |-> value, label |-> "", values |-> <<>>,
     value_range |-> NoRange]

\* faulty variant: an entry of the same name is kept as it is
add_keeps_first(ms, name, value) ==
    IF name \in DOMAIN ms THEN ms
    ELSE [n \in (DOMAIN ms) \cup {name} |-> IF n = name THEN WorkMode(name, value) ELSE ms[n]]

\* ParsedWorkMode::add: BTreeMap::insert replaces an entry of the same name
add(ms, name, value) ==
    [n \in (DOMAIN ms) \cup {name} |-> IF n = name THEN WorkMode(name, value) ELSE ms[n]]

\* the collection loop of contiguous_value_range: None as soon as an entry is
\* no integer or carries a name
RECURSIVE collect_values(_, _)
collect_values(vs, acc) ==
    IF vs = <<>> THEN [ok |-> TRUE, values |-> acc]
    ELSE LET v == Head(vs)
             item_value == as_i64(v.value)
         IN IF ~item_value.some THEN [ok |-> FALSE, values |-> <<>>]
            ELSE IF v.name.some THEN [ok |-> FALSE, values |-> <<>>]
            ELSE collect_values(Tail(vs), Append(acc, item_value.v))

\* the `expect` loop: every item is the one expected, counting up from min
RECURSIVE run_from(_, _)
run_from(values, expect) ==
    IF values = <<>> THEN TRUE
    ELSE IF Head(values) # expect THEN FALSE
    ELSE run_from(Tail(values), expect + 1)

SeqMin(s) == CHOOSE x \in {s[i] : i \in DOMAIN s} : \A j \in DOMAIN s : x <= s[j]
SeqMax(s) == CHOOSE x \in {s[i] : i \in DOMAIN s} : \A j \in DOMAIN s : x >= s[j]

\* faulty variant: the collected values are left in declaration order
sort_values_unsorted(s) == s

sort_values(s) == SortSeq(s, LAMBDA a, b : a < b)

contiguous_value_range(self) ==
    IF self.value_range.some THEN self.value_range
    ELSE LET c == collect_values(self.values, <<>>)
         IN IF ~c.ok THEN NoRange
            ELSE LET values == sort_values(c.values)
                 IN IF values = <<>> THEN NoRange
                    ELSE IF ~run_from(values, SeqMin(values)) THEN NoRange
                    ELSE SomeRange(SeqMin(values), SeqMax(values) + 1)

\* faulty variant: a mode with a range and no values is taken for a preset
should_show_as_preset_values_only(self) == self.values = <<>>

should_show_as_preset(self) ==
    ~contiguous_value_range(self).some /\ self.values = <<>>

\* WorkMode::label
label(self) == IF self.label = "" THEN self.name ELSE self.label

\* lines 196-202: one WorkModeValue per option, label still empty
push_values(self, options) ==
    [self EXCEPT !.values =
        self.values \o [i \in DOMAIN options |->
                            WorkModeValue(options[i].value, options[i].name, "")]]

\* faulty variant: the label is built from the raw value even when the entry has a name
computed_label_value_only(self, v) ==
    "Activate " \o self.name \o " Preset " \o json_to_string(v.value)

\* lines 210-215
computed_label(self, v) ==
    LET option_name == IF v.name.some THEN v.name.v ELSE json_to_string(v.value)
    IN "Activate " \o self.name \o " Preset " \o option_name

\* lines 204-217
finish_values(self) ==
    LET range == contiguous_value_range(self)
    IN IF range.some
       THEN [self EXCEPT !.values = <<>>, !.value_range = range]
       ELSE [self EXCEPT !.values =
                [i \in DOMAIN self.values |->
                    [self.values[i] EXCEPT !.computed_label = computed_label(self, self.values[i])]]]

\* did the call get as far as line 196 ?
reaches_push(opt) == opt.range.tag # "ok" /\ opt.options.tag = "ok"

\* faulty variant: a range that does not parse ends the call
add_values_malformed_range_returns(self, opt) ==
    IF opt.range.tag = "ok"
    THEN [self EXCEPT !.value_range = SomeRange(opt.range.min, opt.range.max + 1)]
    ELSE IF opt.range.tag = "malformed" THEN self
    ELSE IF opt.options.tag # "ok" THEN self
    ELSE finish_values(push_values(self, opt.options.list))

\* faulty variant: the range stops at max instead of max + 1
add_values_exclusive_max(self, opt) ==
    IF opt.range.tag = "ok"
    THEN [self EXCEPT !.value_range = SomeRange(opt.range.min, opt.range.max)]
    ELSE IF opt.options.tag # "ok" THEN self
    ELSE finish_values(push_values(self, opt.options.list))

add_values(self, opt) ==
    IF opt.range.tag = "ok"
    THEN [self EXCEPT !.value_range = SomeRange(opt.range.min, opt.range.max + 1)]
    ELSE IF opt.options.tag # "ok" THEN self
    ELSE finish_values(push_values(self, opt.options.list))

\* faulty variant: the catch-all arm leaves the labels alone
adjust_for_device_no_default(ms, sku) ==
    IF sku \in {"H7160", "H7143"}
    THEN IF "Manual" \in DOMAIN ms
         THEN [ms EXCEPT !["Manual"].label = "Manual: Mist Level"]
         ELSE ms
    ELSE IF sku = "H7131"
    THEN IF "gearMode" \in DOMAIN ms
         THEN [ms EXCEPT !["gearMode"].label = "Heat"]
         ELSE ms
    ELSE ms

adjust_for_device(ms, sku) ==
    IF sku \in {"H7160", "H7143"}
    THEN IF "Manual" \in DOMAIN ms
         THEN [ms EXCEPT !["Manual"].label = "Manual: Mist Level"]
         ELSE ms
    ELSE IF sku = "H7131"
    THEN IF "gearMode" \in DOMAIN ms
         THEN [ms EXCEPT !["gearMode"].label = "Heat"]
         ELSE ms
    ELSE [n \in DOMAIN ms |-> [ms[n] EXCEPT !.label = ms[n].name]]

(***************************************************************************)
(* Inputs of the parser.                                                   *)
(***************************************************************************)
Skus == {"H7131", "H7160", "H6052"}
ModeNames == {"gearMode", "Manual"}
\* a modeValue option may name a mode the workMode field does not have
OptionNames == ModeNames \cup {"Fan"}
\* the workMode options a vendor lists: name and selector value
WorkModeOptions ==
    {[name |-> "gearMode", value |-> JsonInt(1)],
     [name |-> "Manual", value |-> JsonInt(2)],
     [name |-> "gearMode", value |-> JsonInt(3)]}

\* sub-options a vendor lists: unnamed integers, named presets, a string value
Entries ==
    {[name |-> NoneStr, value |-> JsonInt(1)],
     [name |-> NoneStr, value |-> JsonInt(2)],
     [name |-> NoneStr, value |-> JsonInt(3)],
     [name |-> SomeStr("High"), value |-> JsonInt(2)],
     [name |-> NoneStr, value |-> JsonStr("auto")]}

SeqsUpTo(S, n) == UNION {[1..k -> S] : k \in 0..n}

RangeAbsent == [tag |-> "absent", min |-> 0, max |-> 0]
RangeMalformed == [tag |-> "malformed", min |-> 0, max |-> 0]
RangeOk(a, b) == [tag |-> "ok", min |-> a, max |-> b]
OptionsAbsent == [tag |-> "absent", list |-> <<>>]
OptionsMalformed == [tag |-> "malformed", list |-> <<>>]
OptionsOk(l) == [tag |-> "ok", list |-> l]

RangeExtras == {RangeAbsent, RangeMalformed, RangeOk(1, 3), RangeOk(0, 0)}
SampleLists ==
    {<<>>,
     <<[name |-> NoneStr, value |-> JsonInt(1)], [name |-> NoneStr, value |-> JsonInt(3)]>>,
     <<[name |-> SomeStr("High"), value |-> JsonInt(2)]>>}

\* EnumOption of the modeValue field: name, and extras["range"], extras["options"]
EnumOption(n, r, o) == [name |-> n, range |-> r, options |-> o]

\* every list under an absent range; every shape of range with a few lists
ModeValueOptions(room) ==
    {EnumOption(n, RangeAbsent, OptionsOk(l)) : n \in ModeNames, l \in SeqsUpTo(Entries, room)}
    \cup {EnumOption(n, r, o) :
            n \in OptionNames, r \in RangeExtras,
            o \in {OptionsAbsent, OptionsMalformed}
                  \cup {OptionsOk(l) : l \in {s \in SampleLists : Len(s) <= room}}}

\* the device argument: its sku and the shape of its http_device_info
NoInfo == [some |-> FALSE, has_cap |-> FALSE, workMode |-> "absent", modeValue |-> "absent"]
Infos ==
    {NoInfo,
     [some |-> TRUE, has_cap |-> FALSE, workMode |-> "absent", modeValue |-> "absent"],
     [some |-> TRUE, has_cap |-> TRUE, workMode |-> "absent", modeValue |-> "enum"]}
    \cup {[some |-> TRUE, has_cap |-> TRUE, workMode |-> w, modeValue |-> m] :
            w \in {"enum", "other"}, m \in {"absent", "enum", "other"}}

\* Device::http_device_info.capability_by_instance("workMode")
capability_by_instance(info) == info.has_cap
\* DeviceCapability::struct_field_by_name
struct_field_by_name(info, field) ==
    IF field = "workMode" THEN info.workMode # "absent" ELSE info.modeValue # "absent"

\* the size of one modeValue option
OptionSize(opt) == 1 + Len(opt.options.list)

NoCall == [called |-> FALSE, name |-> "", extras_range |-> RangeAbsent,
           extras_options |-> "absent", extras_list |-> <<>>, before_values |-> <<>>, before_range |-> NoRange,
           pushed |-> <<>>, range |-> NoRange]

\* no workMode option consumed yet
NoOptions == [n \in {} |-> JsonNull]
EmptyModes == [n \in {} |-> WorkMode("", JsonNull)]

(***************************************************************************)
(* The device registry (service::state::State, service::device::Device).   *)
(***************************************************************************)
Idents == {[sku |-> "H6052", id |-> "AA"], [sku |-> "H7131", id |-> "BB"]}
LanAddrs == {"10.0.0.2"}

NoState == [some |-> FALSE, updated |-> 0]
SomeState(t) == [some |-> TRUE, updated |-> t]

\* Device::new(sku, id): every source's field absent
NewDevice(ident) ==
    [sku |-> ident.sku, id |-> ident.id,
     lan_device |-> NoneStr, lan_status |-> FALSE,
     http_device_info |-> FALSE, http_device_state |-> NoState,
     undoc_device_info |-> FALSE, room_name |-> NoneStr]

IdentOf(device) == [sku |-> device.sku, id |-> device.id]

\* State::device_mut(sku, id): get or create
device_mut(reg, ident) ==
    IF ident \in DOMAIN reg THEN reg
    ELSE [i \in (DOMAIN reg) \cup {ident} |-> IF i = ident THEN NewDevice(ident) ELSE reg[i]]

set_http_device_info(reg, ident) ==
    [device_mut(reg, ident) EXCEPT ![ident].http_device_info = TRUE]
set_http_device_state(reg, ident, t) ==
    [device_mut(reg, ident) EXCEPT ![ident].http_device_state = SomeState(t)]
set_lan_device(reg, ident, addr) ==
    [device_mut(reg, ident) EXCEPT ![ident].lan_device = SomeStr(addr)]
set_lan_device_status(reg, ident) ==
    [device_mut(reg, ident) EXCEPT ![ident].lan_status = TRUE]
set_undoc_device_info(reg, ident, room) ==
    [device_mut(reg, ident) EXCEPT ![ident].undoc_device_info = TRUE,
                                   ![ident].room_name = room]

\* State::devices(): a copy of every device, in the map's order (any order)
Orders(S) == {f \in [1..Cardinality(S) -> S] : \A i, j \in DOMAIN f : i # j => f[i] # f[j]}
devices(reg) == {[i \in DOMAIN f |-> reg[f[i]]] : f \in Orders(DOMAIN reg)}

EmptyRegistry == [i \in {} |-> NewDevice([sku |-> "", id |-> ""])]

(***************************************************************************)
(* poll_single_device, lines 19-37: what the poller decides from the copy   *)
(* of the device it was handed.                                            *)
(***************************************************************************)
\* faulty variant: a cloud state, once written, is never taken for stale
needs_update_absent_only(device, t) == ~device.http_device_state.some

\* faulty variant: the threshold is taken twice as long
needs_update_late(device, t) ==
    IF ~device.http_device_state.some THEN TRUE
    ELSE t - device.http_device_state.updated > 2 * StaleSecs

\* lines 21-24
needs_update(device, t) ==
    IF ~device.http_device_state.some THEN TRUE
    ELSE t - device.http_device_state.updated > StaleSecs

\* faulty variant: the request is sent without checking for http_device_info
issues_fetch_without_info(device, t, client) ==
    /\ needs_update(device, t)
    /\ ~device.lan_device.some
    /\ client

\* faulty variant: the request is sent whether or not the copy has a lan_device
issues_fetch_ignores_lan(device, t, client) ==
    /\ needs_update(device, t)
    /\ client
    /\ device.http_device_info

\* lines 26-40: does poll_single_device get as far as client.get_device_state ?
issues_fetch(device, t, client) ==
    /\ needs_update(device, t)
    /\ ~device.lan_device.some
    /\ client
    /\ device.http_device_info

(***************************************************************************)
(* Inputs of the serve command.                                            *)
(***************************************************************************)
\* what the platform API's get_devices returns
CloudLists ==
    {<<>>,
     <<[sku |-> "H6052", id |-> "AA"]>>,
     <<[sku |-> "H6052", id |-> "AA"], [sku |-> "H7131", id |-> "BB"]>>}
\* what the undocumented API returns: devices with their group id, and the groups
UndocGroups == [g \in {"g1"} |-> "Kitchen"]
UndocLists ==
    {<<[ident |-> [sku |-> "H6052", id |-> "AA"], group_id |-> "g1"]>>,
     <<[ident |-> [sku |-> "H6052", id |-> "AA"], group_id |-> "g9"],
       [ident |-> [sku |-> "H7131", id |-> "BB"], group_id |-> "g1"]>>}
LanEvents == [ident : Idents, addr : LanAddrs]
NoLanEvent == [ident |-> [sku |-> "", id |-> ""], addr |-> ""]

InitServe ==
    /\ args \in [api : BOOLEAN, undoc : BOOLEAN, lan : BOOLEAN]
    /\ registry = EmptyRegistry
    /\ platform_client = FALSE
    /\ undoc_client = FALSE
    /\ lan_client = FALSE
    /\ now = 0
    /\ run_pc = "api"
    /\ pending = <<>>
    /\ run_err = "none"
    /\ handle = "none"
    /\ lan_pc = "off"
    /\ lan_cur = NoLanEvent
    /\ poll_pc = "off"
    /\ wake_at = 0
    /\ snapshot = <<>>
    /\ idx = 0
    /\ cycle_start = 0
    /\ fetches = [i \in Idents |-> 0]
    /\ evals = [i \in Idents |-> 0]
    /\ failed = {}
    /\ lan_seen = {}

\* the parser is not running
ParseIdle ==
    /\ pdev = [sku |-> "H6052", http_device_info |-> NoInfo]
    /\ ppc = "off"
    /\ modes = EmptyModes
    /\ presult = "none"
    /\ fed = 0
    /\ mv_seen = {}
    /\ wm_seen = NoOptions
    /\ mv_last = ""
    /\ last_call = NoCall

\* the serve command is not running
ServeIdle ==
    /\ args = [api |-> FALSE, undoc |-> FALSE, lan |-> FALSE]
    /\ registry = EmptyRegistry
    /\ platform_client = FALSE
    /\ undoc_client = FALSE
    /\ lan_client = FALSE
    /\ now = 0
    /\ run_pc = "off"
    /\ pending = <<>>
    /\ run_err = "none"
    /\ handle = "none"
    /\ lan_pc = "off"
    /\ lan_cur = NoLanEvent
    /\ poll_pc = "off"
    /\ wake_at = 0
    /\ snapshot = <<>>
    /\ idx = 0
    /\ cycle_start = 0
    /\ fetches = [i \in Idents |-> 0]
    /\ evals = [i \in Idents |-> 0]
    /\ failed = {}
    /\ lan_seen = {}

(***************************************************************************)
(* Time.                                                                   *)
(***************************************************************************)
Tick ==
    /\ run_pc # "off"
    /\ now < MaxTicks * TickSecs
    /\ now' = now + TickSecs
    /\ UNCHANGED <<run_vars, registry, handle, lan_vars, poll_vars>>
    /\ UNCHANGED parse_vars

(***************************************************************************)
(* ServeCommand::run, lines 74-148.                                        *)
(***************************************************************************)
\* line 82: get_devices succeeded, the for loop starts on the list
GetDevicesOk ==
    /\ run_pc = "api" /\ args.api
    /\ pending' \in CloudLists
    /\ run_pc' = "set_http_device_info"
    /\ UNCHANGED <<args, platform_client, undoc_client, lan_client, run_err>>
    /\ UNCHANGED <<registry, handle, now, lan_vars, poll_vars>>
    /\ UNCHANGED parse_vars

\* faulty variant: the error of get_devices is passed over and startup goes on
GetDevicesErr_continues ==
    /\ run_pc = "api" /\ args.api
    /\ run_pc' = "undoc_login"
    /\ run_err' = "get_devices"
    /\ UNCHANGED <<args, platform_client, undoc_client, lan_client, pending>>
    /\ UNCHANGED <<registry, handle, now, lan_vars, poll_vars>>
    /\ UNCHANGED parse_vars

\* line 82: get_devices failed and `?` returns the error from run
GetDevicesErr ==
    /\ run_pc = "api" /\ args.api
    /\ run_pc' = "failed"
    /\ run_err' = "get_devices"
    /\ UNCHANGED <<args, platform_client, undoc_client, lan_client, pending>>
    /\ UNCHANGED <<registry, handle, now, lan_vars, poll_vars>>
    /\ UNCHANGED parse_vars

\* line 80: no platform API client is configured
SkipApi ==
    /\ run_pc = "api" /\ ~args.api
    /\ run_pc' = "undoc_login"
    /\ UNCHANGED <<args, platform_client, undoc_client, lan_client, pending, run_err>>
    /\ UNCHANGED <<registry, handle, now, lan_vars, poll_vars>>
    /\ UNCHANGED parse_vars

\* lines 83-84: device_mut hands out the device, set_http_device_info writes it
SetHttpDeviceInfo ==
    /\ run_pc = "set_http_device_info"
    /\ pending # <<>>
    /\ handle = "none"
    /\ registry' = set_http_device_info(registry, Head(pending))
    /\ handle' = "run"
    /\ UNCHANGED <<run_vars, now, lan_vars, poll_vars>>
    /\ UNCHANGED parse_vars

\* line 85: the loop body ends and `device` is dropped
DropHttpDeviceInfo ==
    /\ run_pc = "set_http_device_info"
    /\ handle = "run"
    /\ handle' = "none"
    /\ pending' = Tail(pending)
    /\ UNCHANGED <<args, platform_client, undoc_client, lan_client, run_pc, run_err>>
    /\ UNCHANGED <<registry, now, lan_vars, poll_vars>>
    /\ UNCHANGED parse_vars

\* line 87: the list is exhausted, set_platform_client
SetPlatformClient ==
    /\ run_pc = "set_http_device_info"
    /\ pending = <<>>
    /\ platform_client' = TRUE
    /\ run_pc' = "undoc_login"
    /\ UNCHANGED <<args, undoc_client, lan_client, pending, run_err>>
    /\ UNCHANGED <<registry, handle, now, lan_vars, poll_vars>>
    /\ UNCHANGED parse_vars

\* line 91
UndocLoginOk ==
    /\ run_pc = "undoc_login" /\ args.undoc
    /\ run_pc' = "undoc_list"
    /\ UNCHANGED <<args, platform_client, undoc_client, lan_client, pending, run_err>>
    /\ UNCHANGED <<registry, handle, now, lan_vars, poll_vars>>
    /\ UNCHANGED parse_vars

\* lines 91-92: login_account or get_device_list failed
UndocErr ==
    /\ run_pc \in {"undoc_login", "undoc_list"} /\ args.undoc
    /\ run_pc' = "failed"
    /\ run_err' = IF run_pc = "undoc_login" THEN "login_account" ELSE "get_device_list"
    /\ UNCHANGED <<args, platform_client, undoc_client, lan_client, pending>>
    /\ UNCHANGED <<registry, handle, now, lan_vars, poll_vars>>
    /\ UNCHANGED parse_vars

\* lines 92-97: get_device_list succeeded, the for loop starts on the entries
UndocListOk ==
    /\ run_pc = "undoc_list"
    /\ pending' \in UndocLists
    /\ run_pc' = "set_undoc_device_info"
    /\ UNCHANGED <<args, platform_client, undoc_client, lan_client, run_err>>
    /\ UNCHANGED <<registry, handle, now, lan_vars, poll_vars>>
    /\ UNCHANGED parse_vars

\* lines 93-99: the room name is the name of the entry's group
room_name(entry) ==
    IF entry.group_id \in DOMAIN UndocGroups
    THEN SomeStr(UndocGroups[entry.group_id]) ELSE NoneStr

\* lines 98-100: device_mut hands out the device, set_undoc_device_info writes it
SetUndocDeviceInfo ==
    /\ run_pc = "set_undoc_device_info"
    /\ pending # <<>>
    /\ handle = "none"
    /\ registry' = set_undoc_device_info(registry, Head(pending).ident,
                                         room_name(Head(pending)))
    /\ handle' = "run"
    /\ UNCHANGED <<run_vars, now, lan_vars, poll_vars>>
    /\ UNCHANGED parse_vars

\* line 101: the loop body ends and `device` is dropped
DropUndocDeviceInfo ==
    /\ run_pc = "set_undoc_device_info"
    /\ handle = "run"
    /\ handle' = "none"
    /\ pending' = Tail(pending)
    /\ UNCHANGED <<args, platform_client, undoc_client, lan_client, run_pc, run_err>>
    /\ UNCHANGED <<registry, now, lan_vars, poll_vars>>
    /\ UNCHANGED parse_vars

\* line 105: the entries are exhausted, set_undoc_client
SetUndocClient ==
    /\ run_pc = "set_undoc_device_info"
    /\ pending = <<>>
    /\ undoc_client' = TRUE
    /\ run_pc' = "lan"
    /\ UNCHANGED <<args, platform_client, lan_client, pending, run_err>>
    /\ UNCHANGED <<registry, handle, now, lan_vars, poll_vars>>
    /\ UNCHANGED parse_vars

\* line 89: no undocumented-API client is configured
SkipUndoc ==
    /\ run_pc = "undoc_login" /\ ~args.undoc
    /\ run_pc' = "lan"
    /\ UNCHANGED <<args, platform_client, undoc_client, lan_client, pending, run_err>>
    /\ UNCHANGED <<registry, handle, now, lan_vars, poll_vars>>
    /\ UNCHANGED parse_vars

\* lines 110-133: LanClient::new succeeded, the discovery task is spawned
LanStartOk ==
    /\ run_pc = "lan" /\ args.lan
    /\ lan_client' = TRUE
    /\ lan_pc' = "recv"
    /\ run_pc' = "spawn_poll"
    /\ UNCHANGED <<args, platform_client, undoc_client, pending, run_err>>
    /\ UNCHANGED <<registry, handle, now, lan_cur, poll_vars>>
    /\ UNCHANGED parse_vars

\* line 114
LanStartErr ==
    /\ run_pc = "lan" /\ args.lan
    /\ run_pc' = "failed"
    /\ run_err' = "LanClient::new"
    /\ UNCHANGED <<args, platform_client, undoc_client, lan_client, pending>>
    /\ UNCHANGED <<registry, handle, now, lan_vars, poll_vars>>
    /\ UNCHANGED parse_vars

\* line 111: the discovery options are empty
SkipLan ==
    /\ run_pc = "lan" /\ ~args.lan
    /\ run_pc' = "spawn_poll"
    /\ UNCHANGED <<args, platform_client, undoc_client, lan_client, pending, run_err>>
    /\ UNCHANGED <<registry, handle, now, lan_vars, poll_vars>>
    /\ UNCHANGED parse_vars

\* lines 136-147 and 61: the poller is spawned and starts its warm-up sleep,
\* run goes on into run_http_server
SpawnPoller ==
    /\ run_pc = "spawn_poll"
    /\ poll_pc' = "warmup"
    /\ wake_at' = now + WarmupSecs
    /\ run_pc' = "serving"
    /\ UNCHANGED <<args, platform_client, undoc_client, lan_client, pending, run_err>>
    /\ UNCHANGED <<registry, handle, now, lan_vars>>
    /\ UNCHANGED <<snapshot, idx, cycle_start, fetches, evals, failed, lan_seen>>
    /\ UNCHANGED parse_vars

(***************************************************************************)
(* The LAN discovery task, lines 118-132.                                  *)
(***************************************************************************)
\* faulty variant: the discovered device is stored as a freshly built record
LanRecv_fresh_record ==
    /\ lan_pc = "recv"
    /\ handle = "none"
    /\ \E ev \in LanEvents :
          /\ registry' = [i \in (DOMAIN registry) \cup {ev.ident} |->
                             IF i = ev.ident
                             THEN [NewDevice(i) EXCEPT !.lan_device = SomeStr(ev.addr)]
                             ELSE registry[i]]
          /\ lan_cur' = ev
    /\ handle' = "lan"
    /\ lan_pc' = "set_lan_device"
    /\ UNCHANGED <<run_vars, now, poll_vars>>
    /\ UNCHANGED parse_vars

\* lines 119-123: scan.recv() yields a device, device_mut hands out its
\* record and set_lan_device overwrites lan_device
LanRecv ==
    /\ lan_pc = "recv"
    /\ handle = "none"
    /\ \E ev \in LanEvents :
          /\ registry' = set_lan_device(registry, ev.ident, ev.addr)
          /\ lan_cur' = ev
    /\ handle' = "lan"
    /\ lan_pc' = "set_lan_device"
    /\ UNCHANGED <<run_vars, now, poll_vars>>
    /\ UNCHANGED parse_vars

\* faulty variant: the handle taken for set_lan_device is kept across query_status
DropLanDevice_keeps_handle ==
    /\ lan_pc = "set_lan_device"
    /\ handle = "lan"
    /\ handle' = "lan"
    /\ lan_pc' = "query_status"
    /\ UNCHANGED <<run_vars, registry, now, lan_cur, poll_vars>>
    /\ UNCHANGED parse_vars

\* lines 123-125: the statement ends, the handle is dropped, query_status is sent
DropLanDevice ==
    /\ lan_pc = "set_lan_device"
    /\ handle = "lan"
    /\ handle' = "none"
    /\ lan_pc' = "query_status"
    /\ UNCHANGED <<run_vars, registry, now, lan_cur, poll_vars>>
    /\ UNCHANGED parse_vars

\* faulty variant: storing the LAN status also discards the device's cloud state
LanQueryOk_clears_cloud_state ==
    /\ lan_pc = "query_status"
    /\ handle = "none"
    /\ registry' = [set_lan_device_status(registry, lan_cur.ident)
                      EXCEPT ![lan_cur.ident].http_device_state = NoState]
    /\ handle' = "lan"
    /\ lan_pc' = "set_lan_device_status"
    /\ UNCHANGED <<run_vars, now, lan_cur, poll_vars>>
    /\ UNCHANGED parse_vars

\* lines 125-129: query_status succeeded, device_mut hands out the record
\* and set_lan_device_status overwrites lan_status
LanQueryOk ==
    /\ lan_pc = "query_status"
    /\ handle = "none"
    /\ registry' = set_lan_device_status(registry, lan_cur.ident)
    /\ handle' = "lan"
    /\ lan_pc' = "set_lan_device_status"
    /\ UNCHANGED <<run_vars, now, lan_cur, poll_vars>>
    /\ UNCHANGED parse_vars

\* lines 129-131: the statement ends, the handle is dropped, back to scan.recv()
DropLanStatus ==
    /\ lan_pc = "set_lan_device_status"
    /\ handle = "lan"
    /\ handle' = "none"
    /\ lan_pc' = "recv"
    /\ lan_cur' = NoLanEvent
    /\ UNCHANGED <<run_vars, registry, now, poll_vars>>
    /\ UNCHANGED parse_vars

\* faulty variant: the error of query_status ends the discovery task
LanQueryErr_returns ==
    /\ lan_pc = "query_status"
    /\ lan_pc' = "returned"
    /\ lan_cur' = NoLanEvent
    /\ UNCHANGED <<run_vars, registry, handle, now, poll_vars>>
    /\ UNCHANGED parse_vars

\* line 125: query_status failed, `if let Ok` drops the error
LanQueryErr ==
    /\ lan_pc = "query_status"
    /\ lan_pc' = "recv"
    /\ lan_cur' = NoLanEvent
    /\ UNCHANGED <<run_vars, registry, handle, now, poll_vars>>
    /\ UNCHANGED parse_vars

(***************************************************************************)
(* periodic_state_poll, lines 60-71, and poll_single_device, lines 18-58.  *)
(***************************************************************************)
\* faulty variant: the poller does not wait for its sleep to end
PollerWake_early ==
    /\ poll_pc \in {"warmup", "sleep"}
    /\ poll_pc' = "devices"
    /\ UNCHANGED <<run_vars, registry, handle, now, lan_vars>>
    /\ UNCHANGED <<wake_at, snapshot, idx, cycle_start, fetches, evals, failed, lan_seen>>
    /\ UNCHANGED parse_vars

\* lines 61 and 69: the sleep is over
PollerWake ==
    /\ poll_pc \in {"warmup", "sleep"}
    /\ now >= wake_at
    /\ poll_pc' = "devices"
    /\ UNCHANGED <<run_vars, registry, handle, now, lan_vars>>
    /\ UNCHANGED <<wake_at, snapshot, idx, cycle_start, fetches, evals, failed, lan_seen>>
    /\ UNCHANGED parse_vars

\* the identities a list of device copies shows with a lan_device
LanVisible(list) == {IdentOf(list[k]) : k \in {j \in DOMAIN list : list[j].lan_device.some}}

\* line 63: state.devices()
PollerSnapshot ==
    /\ poll_pc = "devices"
    /\ snapshot' \in devices(registry)
    /\ idx' = 1
    /\ cycle_start' = now
    /\ fetches' = [i \in Idents |-> 0]
    /\ evals' = [i \in Idents |-> 0]
    /\ failed' = {}
    /\ lan_seen' = lan_seen \cup LanVisible(snapshot')
    /\ poll_pc' = "loop"
    /\ UNCHANGED <<run_vars, registry, handle, now, lan_vars, wake_at>>
    /\ UNCHANGED parse_vars

\* lines 19-42: poll_single_device on the next device of the snapshot, up to
\* the point where it returns Ok(()) or the request is sent
PollEval ==
    /\ poll_pc = "loop"
    /\ idx <= Len(snapshot)
    /\ evals' = [evals EXCEPT ![IdentOf(snapshot[idx])] = @ + 1]
    /\ IF issues_fetch(snapshot[idx], now, platform_client)
       THEN /\ poll_pc' = "get_device_state"
            /\ fetches' = [fetches EXCEPT ![IdentOf(snapshot[idx])] = @ + 1]
            /\ idx' = idx
       ELSE /\ poll_pc' = "loop"
            /\ fetches' = fetches
            /\ idx' = idx + 1
    /\ UNCHANGED <<run_vars, registry, handle, now, lan_vars>>
    /\ UNCHANGED <<wake_at, snapshot, cycle_start, failed, lan_seen>>
    /\ UNCHANGED parse_vars

\* lines 41-48: the request succeeded, device_mut hands out the record and
\* set_http_device_state writes it
FetchOk ==
    /\ poll_pc = "get_device_state"
    /\ handle = "none"
    /\ registry' = set_http_device_state(registry, IdentOf(snapshot[idx]), now)
    /\ handle' = "poll"
    /\ poll_pc' = "set_http_device_state"
    /\ UNCHANGED <<run_vars, now, lan_vars>>
    /\ UNCHANGED <<wake_at, snapshot, idx, cycle_start, fetches, evals, failed, lan_seen>>
    /\ UNCHANGED parse_vars

\* lines 49 and 57: the statement ends, the handle is dropped,
\* poll_single_device returns Ok(()) and the for loop moves on
DropHttpDeviceState ==
    /\ poll_pc = "set_http_device_state"
    /\ handle = "poll"
    /\ handle' = "none"
    /\ idx' = idx + 1
    /\ poll_pc' = "loop"
    /\ UNCHANGED <<run_vars, registry, now, lan_vars>>
    /\ UNCHANGED <<wake_at, snapshot, cycle_start, fetches, evals, failed, lan_seen>>
    /\ UNCHANGED parse_vars

\* faulty variant: the error leaves periodic_state_poll, which returns it
FetchErr_returns ==
    /\ poll_pc = "get_device_state"
    /\ failed' = failed \cup {IdentOf(snapshot[idx])}
    /\ idx' = idx
    /\ poll_pc' = "returned"
    /\ UNCHANGED <<run_vars, registry, handle, now, lan_vars>>
    /\ UNCHANGED <<wake_at, snapshot, cycle_start, fetches, evals, lan_seen>>
    /\ UNCHANGED parse_vars

\* lines 44 and 64-66: the request failed, `?` returns the error to the for
\* loop, which logs it and moves on
FetchErr ==
    /\ poll_pc = "get_device_state"
    /\ failed' = failed \cup {IdentOf(snapshot[idx])}
    /\ idx' = idx + 1
    /\ poll_pc' = "loop"
    /\ UNCHANGED <<run_vars, registry, handle, now, lan_vars>>
    /\ UNCHANGED <<wake_at, snapshot, cycle_start, fetches, evals, lan_seen>>
    /\ UNCHANGED parse_vars

\* line 69: the pass is over, sleep
PollerSleep ==
    /\ poll_pc = "loop"
    /\ idx > Len(snapshot)
    /\ poll_pc' = "sleep"
    /\ wake_at' = now + PollSecs
    /\ UNCHANGED <<run_vars, registry, handle, now, lan_vars>>
    /\ UNCHANGED <<snapshot, idx, cycle_start, fetches, evals, failed, lan_seen>>
    /\ UNCHANGED parse_vars

Next ==
    \/ Tick
    \/ GetDevicesOk
    \/ GetDevicesErr
    \/ SkipApi
    \/ SetHttpDeviceInfo
    \/ DropHttpDeviceInfo
    \/ SetPlatformClient
    \/ UndocLoginOk
    \/ UndocErr
    \/ UndocListOk
    \/ SetUndocDeviceInfo
    \/ DropUndocDeviceInfo
    \/ SetUndocClient
    \/ SkipUndoc
    \/ LanStartOk
    \/ LanStartErr
    \/ SkipLan
    \/ SpawnPoller
    \/ LanRecv
    \/ DropLanDevice
    \/ LanQueryOk
    \/ DropLanStatus
    \/ LanQueryErr
    \/ PollerWake
    \/ PollerSnapshot
    \/ PollEval
    \/ FetchOk
    \/ DropHttpDeviceState
    \/ FetchErr
    \/ PollerSleep

Init == InitServe /\ ParseIdle

Spec == Init /\ [][Next]_vars

(***************************************************************************)
(* The serve command with time that does not end and with fair scheduling. *)
(* The clock runs up to MaxAgeTicks ticks; from there a tick moves every    *)
(* timestamp one tick back instead, which keeps every age and every        *)
(* wake-up time as a later reading of Utc::now would find them, and an age  *)
(* that has left the window stays past the staleness threshold.            *)
(* The command is started without an undocumented-API client and its LAN   *)
(* devices do not answer query_status: neither writes a field that         *)
(* poll_single_device reads.                                               *)
(***************************************************************************)
Earlier(t) == IF t > TickSecs THEN t - TickSecs ELSE 0
EarlierDevice(device) ==
    [device EXCEPT !.http_device_state.updated = Earlier(@)]

TickLive ==
    /\ run_pc # "off"
    /\ IF now < MaxAgeTicks * TickSecs
       THEN /\ now' = now + TickSecs
            /\ UNCHANGED <<registry, snapshot, wake_at, cycle_start>>
       ELSE /\ now' = now
            /\ registry' = [i \in DOMAIN registry |-> EarlierDevice(registry[i])]
            /\ snapshot' = [k \in DOMAIN snapshot |-> EarlierDevice(snapshot[k])]
            /\ wake_at' = Earlier(wake_at)
            /\ cycle_start' = Earlier(cycle_start)
    /\ UNCHANGED <<run_vars, handle, lan_vars>>
    /\ UNCHANGED <<poll_pc, idx, fetches, evals, failed, lan_seen>>
    /\ UNCHANGED parse_vars

\* get_device_state returns, one way or the other
FetchReturns == FetchOk \/ FetchErr

InitLive ==
    /\ InitServe
    /\ ~args.undoc
    /\ ParseIdle

\* the steps of Next that such a command can take
NextLive ==
    \/ TickLive
    \/ GetDevicesOk
    \/ GetDevicesErr
    \/ SkipApi
    \/ SetHttpDeviceInfo
    \/ DropHttpDeviceInfo
    \/ SetPlatformClient
    \/ SkipUndoc
    \/ LanStartOk
    \/ LanStartErr
    \/ SkipLan
    \/ SpawnPoller
    \/ LanRecv
    \/ DropLanDevice
    \/ LanQueryErr
    \/ PollerWake
    \/ PollerSnapshot
    \/ PollEval
    \/ FetchOk
    \/ DropHttpDeviceState
    \/ FetchErr
    \/ PollerSleep

\* the runtime schedules the poller task whenever it can run, every
\* get_device_state returns, and time passes
Fairness ==
    /\ WF_vars(TickLive)
    /\ WF_vars(PollerWake)
    /\ WF_vars(PollerSnapshot)
    /\ WF_vars(PollEval)
    /\ WF_vars(FetchReturns)
    /\ WF_vars(DropHttpDeviceState)
    /\ WF_vars(PollerSleep)

SpecLive == InitLive /\ [][NextLive]_vars /\ Fairness

(***************************************************************************)
(* ParsedWorkMode::with_device, step by step.                              *)
(***************************************************************************)
InitParse ==
    /\ ServeIdle
    /\ pdev \in [sku : Skus, http_device_info : Infos]
    /\ ppc = "with_device"
    /\ modes = EmptyModes
    /\ presult = "none"
    /\ fed = 0
    /\ mv_seen = {}
    /\ wm_seen = NoOptions
    /\ mv_last = ""
    /\ last_call = NoCall

\* faulty variant: a capability without the workMode field is parsed as if it had none to add
with_device_lookup_no_field_check(device) ==
    IF ~device.http_device_info.some THEN "no platform state, so no known work mode"
    ELSE IF ~capability_by_instance(device.http_device_info)
    THEN "device has no workMode capability"
    ELSE "ok"

\* lines 16-35: the three lookups, each an early return with an error
with_device_lookup(device) ==
    IF ~device.http_device_info.some THEN "no platform state, so no known work mode"
    ELSE IF ~capability_by_instance(device.http_device_info)
    THEN "device has no workMode capability"
    ELSE IF ~struct_field_by_name(device.http_device_info, "workMode")
    THEN "workMode not found"
    ELSE "ok"

\* where with_capability goes after the workMode field (lines 44-46)
mode_value_pc(device) ==
    IF struct_field_by_name(device.http_device_info, "modeValue")
       /\ device.http_device_info.modeValue = "enum"
    THEN "modeValue" ELSE "adjust"

WithDeviceEnter ==
    /\ UNCHANGED serve_vars
    /\ ppc = "with_device"
    /\ LET r == with_device_lookup(pdev)
       IN IF r # "ok"
          THEN /\ presult' = r
               /\ ppc' = "done"
          ELSE /\ presult' = "none"
               /\ ppc' = IF pdev.http_device_info.workMode = "enum"
                         THEN "workMode" ELSE mode_value_pc(pdev)
    /\ UNCHANGED <<pdev, modes, fed, mv_seen, wm_seen, mv_last, last_call>>

\* lines 37-39, one iteration
AddWorkMode ==
    /\ UNCHANGED serve_vars
    /\ ppc = "workMode"
    /\ fed < MaxModes
    /\ \E opt \in WorkModeOptions :
          /\ modes' = add(modes, opt.name, opt.value)
          /\ wm_seen' = [n \in (DOMAIN wm_seen) \cup {opt.name} |->
                            IF n = opt.name THEN opt.value ELSE wm_seen[n]]
    /\ fed' = fed + 1
    /\ UNCHANGED <<pdev, ppc, presult, mv_seen, mv_last, last_call>>

\* the workMode options are exhausted
EndWorkMode ==
    /\ UNCHANGED serve_vars
    /\ ppc = "workMode"
    /\ ppc' = mode_value_pc(pdev)
    /\ fed' = 0
    /\ UNCHANGED <<pdev, modes, presult, mv_seen, wm_seen, mv_last, last_call>>

\* lines 47-52, one iteration
AddModeValue ==
    /\ UNCHANGED serve_vars
    /\ ppc = "modeValue"
    /\ fed < MaxInput
    /\ \E opt \in ModeValueOptions(MaxInput - fed - 1) :
       /\ fed' = fed + OptionSize(opt)
       /\ mv_seen' = mv_seen \cup {opt.name}
       /\ mv_last' = opt.name
       /\ IF opt.name \in DOMAIN modes
          THEN /\ modes' = [modes EXCEPT ![opt.name] = add_values(modes[opt.name], opt)]
               /\ last_call' =
                    [called |-> TRUE, name |-> opt.name, extras_range |-> opt.range,
                     extras_options |-> opt.options.tag,
                     extras_list |-> IF reaches_push(opt) THEN opt.options.list ELSE <<>>,
                     before_values |-> modes[opt.name].values,
                     before_range |-> modes[opt.name].value_range,
                     pushed |-> IF reaches_push(opt)
                                THEN push_values(modes[opt.name], opt.options.list).values
                                ELSE modes[opt.name].values,
                     range |-> IF reaches_push(opt)
                               THEN contiguous_value_range(
                                        push_values(modes[opt.name], opt.options.list))
                               ELSE NoRange]
          ELSE UNCHANGED <<modes, last_call>>
    /\ UNCHANGED <<pdev, ppc, presult, wm_seen>>

\* lines 52-57 and 24-25: the modeValue options are exhausted (or the field is
\* no enum), with_capability returns Ok and with_device adjusts the labels
AdjustForDevice ==
    /\ UNCHANGED serve_vars
    /\ ppc \in {"modeValue", "adjust"}
    /\ modes' = adjust_for_device(modes, pdev.sku)
    /\ presult' = "ok"
    /\ ppc' = "done"
    /\ UNCHANGED <<pdev, fed, mv_seen, wm_seen, mv_last, last_call>>

NextParse ==
    \/ WithDeviceEnter
    \/ AddWorkMode
    \/ EndWorkMode
    \/ AddModeValue
    \/ AdjustForDevice

SpecParse == InitParse /\ [][NextParse]_vars

(***************************************************************************)
(* Properties of the poller, checked under Spec.                           *)
(***************************************************************************)
\* the registry's record of the device the poller is at
Polled == registry[IdentOf(snapshot[idx])]
LanPresentAndStale(device, t) == device.lan_device.some /\ needs_update(device, t)

\* C1 (as claimed): the poller neither sends get_device_state nor writes
\* http_device_state for a device whose lan_device is present in the registry
\* while its cloud state is absent or older than 900 seconds.
C1_NeverFetchesLanDevice ==
    [][/\ (poll_pc = "loop" /\ poll_pc' = "get_device_state")
          => ~LanPresentAndStale(Polled, now)
       /\ (poll_pc = "get_device_state" /\ poll_pc' = "set_http_device_state")
          => ~LanPresentAndStale(Polled, now)]_vars

\* the copy was stale, with a cloud state, when the pass began, and had no LAN record
StaleAtCycleStart(device) ==
    /\ device.http_device_state.some
    /\ cycle_start - device.http_device_state.updated > StaleSecs
    /\ ~device.lan_device.some

\* C2: no pass issues two get_device_state calls for one device, and a pass
\* that is over has issued exactly one for every device that, when the pass
\* took its snapshot, had no lan_device and an http_device_state more than 900
\* seconds old.
C2_OneFetchPerCycle ==
    /\ \A i \in Idents : fetches[i] <= 1
    /\ poll_pc = "sleep"
       => \A k \in DOMAIN snapshot :
             StaleAtCycleStart(snapshot[k]) => fetches[IdentOf(snapshot[k])] = 1

\* C2 witness: a pass is over that refreshed a device whose cloud state had gone stale
C2_Witness ==
    /\ poll_pc = "sleep"
    /\ \E k \in DOMAIN snapshot :
          /\ StaleAtCycleStart(snapshot[k])
          /\ fetches[IdentOf(snapshot[k])] = 1
          /\ registry[IdentOf(snapshot[k])].http_device_state.updated >= cycle_start

(***************************************************************************)
(* Properties of the registry and of the tasks writing it, under Spec.     *)
(***************************************************************************)
\* the fields of a Device that a source fills in
SourceFields ==
    {"lan_device", "lan_status", "http_device_info", "http_device_state",
     "undoc_device_info", "room_name"}

\* the source fields of a record that differ from a default-initialized Device
PresentFields(device) ==
    {f \in SourceFields : device[f] # NewDevice(IdentOf(device))[f]}

\* the sets of fields one setter call writes
SetterFields ==
    {{"lan_device"}, {"lan_status"}, {"http_device_info"}, {"http_device_state"},
     {"undoc_device_info", "room_name"}}

\* C11: the set of identities in the registry only grows; a record enters the
\* registry keyed by its own (sku, id), default-initialized but for the one
\* setter call that follows the device_mut that created it; and no step
\* removes a record or takes a source field of an existing record back to absent.
C11_RegistryOnlyGrows ==
    [][/\ DOMAIN registry \subseteq DOMAIN registry'
       /\ \A i \in DOMAIN registry' : IdentOf(registry'[i]) = i
       /\ \A i \in (DOMAIN registry') \ (DOMAIN registry) :
             \E fs \in SetterFields : PresentFields(registry'[i]) \subseteq fs
       /\ \A i \in DOMAIN registry :
             PresentFields(registry[i]) \subseteq PresentFields(registry'[i])]_vars

\* C11 witness: one record carries what all four writers stored on it, next
\* to a record that LAN discovery created
C11_Witness ==
    /\ \E i \in DOMAIN registry : PresentFields(registry[i]) = SourceFields
    /\ \E j \in DOMAIN registry : PresentFields(registry[j]) = {"lan_device"}

\* the task is waiting for one of its network calls: get_devices,
\* login_account, get_device_list, LanClient::new or the HTTP server for run,
\* scan.recv or query_status for the LAN task, get_device_state for the poller
RunInFlight ==
    \/ run_pc = "api" /\ args.api
    \/ run_pc = "undoc_login" /\ args.undoc
    \/ run_pc = "undoc_list"
    \/ run_pc = "lan" /\ args.lan
    \/ run_pc = "serving"
LanInFlight == lan_pc \in {"recv", "query_status"}
PollInFlight == poll_pc = "get_device_state"

\* the task is between a device_mut and the end of the statement or loop
\* body that uses the handle
RunAtSetter == run_pc \in {"set_http_device_info", "set_undoc_device_info"}
LanAtSetter == lan_pc \in {"set_lan_device", "set_lan_device_status"}
PollAtSetter == poll_pc = "set_http_device_state"

\* C12: no task holds a device handle while one of its network calls is in
\* flight: whoever holds the handle is at a setter, past the network call
\* whose result it stores and before its next one.
C12_NoHandleAcrossNetworkCall ==
    /\ RunInFlight => handle # "run"
    /\ LanInFlight => handle # "lan"
    /\ PollInFlight => handle # "poll"
    /\ handle = "run" => RunAtSetter
    /\ handle = "lan" => LanAtSetter
    /\ handle = "poll" => PollAtSetter

\* C12 witness: the poller holds the handle for the state it fetched while the
\* LAN task's query_status is in flight
C12_Witness ==
    /\ handle = "poll"
    /\ registry[IdentOf(snapshot[idx])].http_device_state = SomeState(now)
    /\ lan_pc = "query_status"

\* this step is the poller's get_device_state returning an error
FetchFails == poll_pc = "get_device_state" /\ poll_pc' \notin {"get_device_state", "set_http_device_state"}

\* C13: a get_device_state that fails writes nothing and hands the loop on to
\* the next device of the same snapshot; the failed device keeps the
\* http_device_state the snapshot showed and is asked for once only in that
\* pass; and the pass ends in the sleep with every device of the snapshot
\* evaluated exactly once.
C13_FailedFetchStaysInLoop ==
    [][/\ FetchFails
          => /\ poll_pc' = "loop"
             /\ idx' = idx + 1
             /\ snapshot' = snapshot
             /\ registry' = registry
             /\ failed' = failed \cup {IdentOf(snapshot[idx])}
       /\ \A k \in DOMAIN snapshot' :
             IdentOf(snapshot'[k]) \in failed'
             => /\ fetches'[IdentOf(snapshot'[k])] = 1
                /\ evals'[IdentOf(snapshot'[k])] = 1
                /\ registry'[IdentOf(snapshot'[k])].http_device_state
                      = snapshot'[k].http_device_state
       /\ (poll_pc = "loop" /\ poll_pc' # "loop")
          => \/ poll_pc' = "get_device_state" /\ idx <= Len(snapshot)
             \/ /\ poll_pc' = "sleep"
                /\ \A k \in DOMAIN snapshot : evals[IdentOf(snapshot[k])] = 1]_vars

\* C13 witness: a pass is over in which the request for the first device of
\* the snapshot failed and the second device was evaluated, and fetched, after it
C13_Witness ==
    /\ poll_pc = "sleep"
    /\ Len(snapshot) = 2
    /\ IdentOf(snapshot[1]) \in failed
    /\ evals[IdentOf(snapshot[2])] = 1
    /\ fetches[IdentOf(snapshot[2])] = 1
    /\ registry[IdentOf(snapshot[1])].http_device_state = snapshot[1].http_device_state

\* the record of identity i before a step, a default one if device_mut creates it
Before(i) == IF i \in DOMAIN registry THEN registry[i] ELSE NewDevice(i)

\* the fields of the record of identity i that a step changes
ChangedFields(i) == {f \in SourceFields : registry'[i][f] # Before(i)[f]}

\* the step changes, in the whole registry, at most the fields fs of the record of i
WritesOnly(i, fs) ==
    /\ DOMAIN registry' = (DOMAIN registry) \cup {i}
    /\ \A j \in (DOMAIN registry') \ {i} : registry'[j] = registry[j]
    /\ IdentOf(registry'[i]) = i
    /\ ChangedFields(i) \subseteq fs

\* C14: a step that changes the registry is one task's setter call and
\* changes nothing but that setter's field of that task's device: the poller
\* http_device_state, the LAN task lan_device and then lan_status, the cloud
\* list loop http_device_info, the undocumented-API loop undoc_device_info
\* with the room name.
C14_WritesStayInOwnFields ==
    [][registry' # registry
       => \/ /\ handle' = "poll" /\ poll_pc' = "set_http_device_state"
             /\ WritesOnly(IdentOf(snapshot[idx]), {"http_device_state"})
          \/ /\ handle' = "lan" /\ lan_pc' = "set_lan_device"
             /\ WritesOnly(lan_cur'.ident, {"lan_device"})
          \/ /\ handle' = "lan" /\ lan_pc' = "set_lan_device_status"
             /\ WritesOnly(lan_cur.ident, {"lan_status"})
          \/ /\ handle' = "run" /\ run_pc = "set_http_device_info"
             /\ WritesOnly(Head(pending), {"http_device_info"})
          \/ /\ handle' = "run" /\ run_pc = "set_undoc_device_info"
             /\ WritesOnly(Head(pending).ident, {"undoc_device_info", "room_name"})]_vars

\* C14 witness: the LAN task has just stored a status on a record that keeps
\* its cloud listing, its cloud state and its undocumented-API entry, next to
\* another record
C14_Witness ==
    /\ handle = "lan" /\ lan_pc = "set_lan_device_status"
    /\ PresentFields(registry[lan_cur.ident]) = SourceFields
    /\ Cardinality(DOMAIN registry) = 2

\* this step is one call of poll_single_device, up to its return or its request
Evaluates == evals' # evals /\ poll_pc = "loop"

\* the four conditions under which the copy of a device is due for a request
Due(device, t, client) ==
    /\ \/ ~device.http_device_state.some
       \/ t - device.http_device_state.updated > StaleSecs
    /\ ~device.lan_device.some
    /\ client
    /\ device.http_device_info

\* C15: evaluating a device sends get_device_state exactly when the copy has
\* no cloud state or one more than 900 seconds old, has no lan_device, has
\* http_device_info, and a platform client is set; otherwise it changes
\* nothing and moves on; and an http_device_state differs from the one before
\* the step only in the step that follows a successful request for that device.
C15_FetchOnlyWhenDue ==
    [][/\ Evaluates
          => /\ idx <= Len(snapshot)
             /\ registry' = registry
             /\ poll_pc' = "get_device_state" <=> Due(snapshot[idx], now, platform_client)
             /\ poll_pc' # "get_device_state"
                => poll_pc' = "loop" /\ idx' = idx + 1 /\ fetches' = fetches
             /\ poll_pc' = "get_device_state"
                => fetches' = [fetches EXCEPT ![IdentOf(snapshot[idx])] = @ + 1]
       /\ \A i \in DOMAIN registry' :
             registry'[i].http_device_state # Before(i).http_device_state
             => /\ poll_pc = "get_device_state"
                /\ poll_pc' = "set_http_device_state"
                /\ i = IdentOf(snapshot[idx])]_vars

\* C15 witness: a pass is over that sent a request for a device that was due
\* and none for a device that has http_device_info, no lan_device and a
\* cloud state exactly 900 seconds old
C15_Witness ==
    /\ poll_pc = "sleep"
    /\ Len(snapshot) = 2
    /\ Due(snapshot[1], cycle_start, platform_client)
    /\ fetches[IdentOf(snapshot[1])] = 1
    /\ snapshot[2].http_device_info
    /\ ~snapshot[2].lan_device.some
    /\ snapshot[2].http_device_state.some
    /\ cycle_start - snapshot[2].http_device_state.updated = StaleSecs
    /\ fetches[IdentOf(snapshot[2])] = 0

\* the identities of the devices in a list of copies
IdentsIn(list) == {IdentOf(list[k]) : k \in DOMAIN list}

\* the positions periodic_state_poll can go to from a position
PollerSuccessors(pc) ==
    CASE pc = "off" -> {"warmup"}
      [] pc = "warmup" -> {"devices"}
      [] pc = "devices" -> {"loop"}
      [] pc = "loop" -> {"loop", "get_device_state", "sleep"}
      [] pc = "get_device_state" -> {"set_http_device_state", "loop"}
      [] pc = "set_http_device_state" -> {"loop"}
      [] pc = "sleep" -> {"devices"}
      [] OTHER -> {}

\* C16: the poller starts with a sleep of 20 seconds and evaluates nothing
\* until it is over; after it the poller goes round one cycle only, snapshot,
\* pass, sleep of 60 seconds, with no way out of it; the snapshot is a copy of
\* every record the registry holds at that moment, each once; a pass evaluates
\* no device twice and ends with every device of its snapshot evaluated once
\* and no other device evaluated.
C16_PassThenSleepForever ==
    [][/\ poll_pc' # poll_pc => poll_pc' \in PollerSuccessors(poll_pc)
       /\ (poll_pc = "off" /\ poll_pc' = "warmup") => wake_at' = now + WarmupSecs
       /\ (poll_pc = "loop" /\ poll_pc' = "sleep") => wake_at' = now + PollSecs
       /\ poll_pc \in {"warmup", "sleep"}
          => /\ evals' = evals /\ fetches' = fetches
             /\ poll_pc' = poll_pc => wake_at' = wake_at
             /\ poll_pc' # poll_pc => now >= wake_at
       /\ (poll_pc = "devices" /\ poll_pc' = "loop")
          => /\ Len(snapshot') = Cardinality(DOMAIN registry)
             /\ \A i \in DOMAIN registry : \E k \in DOMAIN snapshot' : snapshot'[k] = registry[i]
             /\ idx' = 1
             /\ \A i \in Idents : evals'[i] = 0
       /\ poll_pc # "devices" => snapshot' = snapshot
       /\ evals' # evals
          => /\ poll_pc \in {"devices", "loop"}
             /\ poll_pc = "loop"
                => evals' = [evals EXCEPT ![IdentOf(snapshot[idx])] = 1]
       /\ (poll_pc = "loop" /\ poll_pc' = "sleep")
          => /\ \A i \in IdentsIn(snapshot) : evals[i] = 1
             /\ \A i \in Idents \ IdentsIn(snapshot) : evals[i] = 0]_vars

\* C16 witness: a pass is over that evaluated the one device of its snapshot
\* and not the device that was created while the pass was under way
C16_Witness ==
    /\ poll_pc = "sleep"
    /\ Len(snapshot) = 1
    /\ evals[IdentOf(snapshot[1])] = 1
    /\ \E i \in DOMAIN registry : i \notin IdentsIn(snapshot) /\ evals[i] = 0
    /\ wake_at = now + PollSecs

\* the positions the LAN discovery task can go to from a position
LanSuccessors(pc) ==
    CASE pc = "off" -> {"recv"}
      [] pc = "recv" -> {"set_lan_device"}
      [] pc = "set_lan_device" -> {"query_status"}
      [] pc = "query_status" -> {"set_lan_device_status", "recv"}
      [] pc = "set_lan_device_status" -> {"recv"}
      [] OTHER -> {}

\* C17: a discovery event makes the LAN task get or create the record of the
\* event's (sku, id) and store the event as its lan_device before query_status
\* is sent; a lan_status changes only in the step that stores a successful
\* query's status on the event's device; a failed query changes nothing in the
\* registry, so lan_status is as before and lan_device as the event set it, and
\* the task is back at scan.recv.
C17_LanStatusOnlyOnSuccess ==
    [][/\ lan_pc' # lan_pc => lan_pc' \in LanSuccessors(lan_pc)
       /\ (lan_pc = "recv" /\ lan_pc' # "recv")
          => /\ lan_cur' \in LanEvents
             /\ DOMAIN registry' = (DOMAIN registry) \cup {lan_cur'.ident}
             /\ registry'[lan_cur'.ident].lan_device = SomeStr(lan_cur'.addr)
             /\ registry'[lan_cur'.ident].lan_status = Before(lan_cur'.ident).lan_status
       /\ lan_pc' = "query_status"
          => /\ lan_cur'.ident \in DOMAIN registry'
             /\ registry'[lan_cur'.ident].lan_device = SomeStr(lan_cur'.addr)
       /\ (lan_pc = "query_status" /\ lan_pc' = "set_lan_device_status")
          => registry'[lan_cur.ident].lan_status
       /\ (lan_pc = "query_status" /\ lan_pc' = "recv")
          => registry' = registry
       /\ \A i \in DOMAIN registry' :
             registry'[i].lan_status # Before(i).lan_status
             => /\ lan_pc = "query_status" /\ lan_pc' = "set_lan_device_status"
                /\ i = lan_cur.ident]_vars

\* C17 witness: the task is back at scan.recv after a failed query, and the
\* device it was about has the event's lan_device and no lan_status
C17_Witness ==
    /\ lan_pc = "recv"
    /\ \E i \in DOMAIN registry :
          /\ registry[i].lan_device.some
          /\ ~registry[i].lan_status
    /\ \E j \in DOMAIN registry : registry[j].lan_status

\* nothing of the serve command has been started or stored
NothingStarted ==
    /\ registry = EmptyRegistry
    /\ ~platform_client /\ ~undoc_client /\ ~lan_client
    /\ lan_pc = "off"
    /\ poll_pc = "off"
    /\ handle = "none"

\* C18: when get_devices fails, run returns that error at once: the registry
\* is still empty, no client is installed, the LAN task and the poller are
\* not spawned, the HTTP server is not reached, and run stays returned; with
\* no platform client configured run goes on to the undocumented API with no
\* error.
C18_ListFetchFailureAborts ==
    [][/\ (run_pc = "api" /\ args.api /\ run_pc' # "api")
          => \/ run_pc' = "set_http_device_info" /\ run_err' = "none"
             \/ run_pc' = "failed" /\ run_err' = "get_devices" /\ registry' = registry
       /\ (run_pc = "api" /\ ~args.api /\ run_pc' # "api")
          => run_pc' = "undoc_login" /\ run_err' = "none" /\ registry' = registry
       /\ run_err' = "get_devices"
          => run_pc' = "failed" /\ args.api /\ NothingStarted'
       /\ run_pc = "failed" => run_pc' = "failed" /\ run_err' = run_err]_vars

\* C18 witness: run has returned the error of get_devices and time has passed
C18_Witness ==
    /\ run_pc = "failed"
    /\ run_err = "get_devices"
    /\ now > 0
    /\ NothingStarted

\* C19: a lan_device that is present stays present; and once a snapshot has
\* shown a device with a lan_device, no later step sends get_device_state for
\* it or changes its http_device_state, and every later snapshot shows it
\* with a lan_device again.
C19_LanVisibleNeverFetched ==
    [][/\ \A i \in DOMAIN registry :
             registry[i].lan_device.some => registry'[i].lan_device.some
       /\ \A i \in lan_seen :
             /\ i \in DOMAIN registry
             /\ registry[i].lan_device.some
             /\ i \in lan_seen'
             /\ fetches'[i] = 0
             /\ ~(poll_pc' = "get_device_state" /\ IdentOf(snapshot'[idx']) = i)
             /\ registry'[i].http_device_state = registry[i].http_device_state
       /\ (poll_pc = "devices" /\ poll_pc' = "loop")
          => lan_seen' = LanVisible(snapshot')]_vars

\* C19 witness: a pass is over that evaluated, and did not fetch, a device
\* with a lan_device whose cloud state is more than 900 seconds old
C19_Witness ==
    /\ poll_pc = "sleep"
    /\ \E k \in DOMAIN snapshot :
          /\ IdentOf(snapshot[k]) \in lan_seen
          /\ snapshot[k].lan_device.some
          /\ snapshot[k].http_device_state.some
          /\ cycle_start - snapshot[k].http_device_state.updated > StaleSecs
          /\ evals[IdentOf(snapshot[k])] = 1
          /\ fetches[IdentOf(snapshot[k])] = 0
          /\ registry[IdentOf(snapshot[k])].http_device_state = snapshot[k].http_device_state

\* the poller runs and the registry's record of identity i is one the poller
\* ought to fetch: listed by the cloud, not seen on the LAN, a platform
\* client set, and a cloud state that is absent or more than 900 seconds old
DueInRegistry(i) ==
    /\ poll_pc # "off"
    /\ platform_client
    /\ i \in DOMAIN registry
    /\ registry[i].http_device_info
    /\ ~registry[i].lan_device.some
    /\ \/ ~registry[i].http_device_state.some
       \/ now - registry[i].http_device_state.updated > StaleSecs

\* get_device_state for identity i is in flight
FetchInFlight(i) == poll_pc = "get_device_state" /\ IdentOf(snapshot[idx]) = i

\* the poller holds the handle of identity i and has stored the state it fetched
FetchedStateWritten(i) ==
    /\ poll_pc = "set_http_device_state"
    /\ IdentOf(snapshot[idx]) = i
    /\ registry[i].http_device_state = SomeState(now)

\* C22: under fair scheduling, with every request returning, a device the
\* poller ought to fetch has get_device_state sent for it, unless it stops
\* being such a device first (it is seen on the LAN); and a request in flight
\* ends with the fetched state written or with the request failed; whatever
\* the requests for other devices do.
C22_DueDeviceEventuallyFetched ==
    \A i \in Idents :
       /\ DueInRegistry(i) ~> (FetchInFlight(i) \/ ~DueInRegistry(i))
       /\ FetchInFlight(i) ~> (FetchedStateWritten(i) \/ i \in failed)

\* C22 witness: the fetched state of a device whose cloud state had gone
\* stale is written in a pass in which the request for the other device failed
C22_Witness ==
    \E i \in Idents :
       /\ FetchedStateWritten(i)
       /\ snapshot[idx].http_device_state.some
       /\ failed # {}
       /\ i \notin failed

(***************************************************************************)
(* Properties of the work-mode parser, checked under SpecParse.            *)
(***************************************************************************)
ModeOf(n) == modes[n]
HasName(m) == \E i \in DOMAIN m.values : m.values[i].name.some

\* the last add_values call got past both early returns and pushed its options
LastCallPushed ==
    /\ last_call.called
    /\ last_call.extras_range.tag # "ok"
    /\ last_call.extras_options = "ok"

\* the integers of a list of unnamed, pairwise different integer entries
UnnamedIntSet(vs) ==
    /\ \A i \in DOMAIN vs : vs[i].value.kind = "int" /\ ~vs[i].name.some
    /\ \A i, j \in DOMAIN vs : i # j => vs[i].value.i # vs[j].value.i
IntsOf(vs) == {vs[i].value.i : i \in DOMAIN vs}
SetMin(S) == CHOOSE x \in S : \A y \in S : x <= y
SetMax(S) == CHOOSE x \in S : \A y \in S : x >= y
NoGaps(S) == S # {} /\ \A k \in SetMin(S)..SetMax(S) : k \in S

\* C3 (as claimed): no mode ever has value_range populated together with a
\* non-empty values list.
C3_RangeExcludesValues ==
    \A n \in DOMAIN modes : ~(ModeOf(n).value_range.some /\ ModeOf(n).values # <<>>)

\* C4: when contiguous_value_range is applied (line 204) to a mode that had no
\* value_range and whose values are a set of unnamed integers, it returns
\* min..max+1 if the set has no gap between its minimum and maximum, and None
\* otherwise.
C4_ContiguousIffNoGaps ==
    (LastCallPushed /\ ~last_call.before_range.some /\ UnnamedIntSet(last_call.pushed))
    => LET S == IntsOf(last_call.pushed)
       IN IF NoGaps(S)
          THEN last_call.range = SomeRange(SetMin(S), SetMax(S) + 1)
          ELSE last_call.range = NoRange

\* C4 witness: a range was inferred from several unnamed integers listed out of order
C4_Witness ==
    /\ LastCallPushed /\ ~last_call.before_range.some /\ UnnamedIntSet(last_call.pushed)
    /\ Len(last_call.pushed) >= 2
    /\ last_call.pushed[1].value.i > last_call.pushed[2].value.i
    /\ last_call.range.some

\* C5 (as claimed): a mode whose values list holds a named entry never has a
\* contiguous range.
C5_NamedNeverContiguous ==
    \A n \in DOMAIN modes : HasName(ModeOf(n)) => ~contiguous_value_range(ModeOf(n)).some

\* C6: an option whose extras hold a well-formed range {min, max} leaves the
\* mode with value_range = min..max+1 and with the values it had: none of the
\* option's sub-options is pushed, whatever options data it carries.
C6_RangeDescriptorWins ==
    (last_call.called /\ last_call.extras_range.tag = "ok")
    => /\ ModeOf(last_call.name).value_range =
              SomeRange(last_call.extras_range.min, last_call.extras_range.max + 1)
       /\ ModeOf(last_call.name).values = last_call.before_values

\* C6 witness: a range descriptor arrived together with a well-formed options list
C6_Witness ==
    /\ last_call.called
    /\ last_call.extras_range = RangeOk(1, 3)
    /\ last_call.extras_options = "ok"
    /\ ModeOf(last_call.name).value_range = SomeRange(1, 4)

\* the text of a raw value, written out for the values the model feeds
TextOf(j) ==
    CASE j = JsonInt(1) -> "1"
      [] j = JsonInt(2) -> "2"
      [] j = JsonInt(3) -> "3"
      [] j = JsonStr("auto") -> "\"auto\""

\* C7: every retained WorkModeValue is labelled "Activate {mode} Preset {x}", x
\* being its name when it has one and the text of its raw value otherwise, and
\* the values retained by the last call are the pushed ones in declaration order.
C7_PresetLabels ==
    /\ \A n \in DOMAIN modes : \A i \in DOMAIN ModeOf(n).values :
          LET v == ModeOf(n).values[i]
          IN /\ v.computed_label =
                    "Activate " \o n \o " Preset "
                        \o (IF v.name.some THEN v.name.v ELSE TextOf(v.value))
             /\ v.computed_label # ""
    /\ (LastCallPushed /\ ~last_call.range.some)
       => /\ Len(ModeOf(last_call.name).values) = Len(last_call.pushed)
          /\ \A i \in DOMAIN last_call.pushed :
                /\ ModeOf(last_call.name).values[i].value = last_call.pushed[i].value
                /\ ModeOf(last_call.name).values[i].name = last_call.pushed[i].name

\* C7 witness: a named preset, an unnamed integer and an unnamed string retained together
C7_Witness ==
    \E n \in DOMAIN modes :
       /\ Len(ModeOf(n).values) = 3
       /\ \E i, j, k \in DOMAIN ModeOf(n).values :
             /\ ModeOf(n).values[i].computed_label = "Activate gearMode Preset High"
             /\ ModeOf(n).values[j].computed_label = "Activate gearMode Preset 1"
             /\ ModeOf(n).values[k].computed_label = "Activate gearMode Preset \"auto\""

\* the sub-options of the last call were unnamed consecutive integers on a fresh mode
LastCallConsecutive ==
    /\ LastCallPushed
    /\ last_call.before_values = <<>> /\ ~last_call.before_range.some
    /\ UnnamedIntSet(last_call.pushed)
    /\ NoGaps(IntsOf(last_call.pushed))

\* C8: should_show_as_preset is true exactly of the modes with no value_range
\* and no values; a mode no modeValue option named has neither and is shown as a
\* preset; a mode given unnamed consecutive values is not.
C8_ShowAsPreset ==
    /\ \A n \in DOMAIN modes :
          should_show_as_preset(ModeOf(n))
              <=> (~ModeOf(n).value_range.some /\ ModeOf(n).values = <<>>)
    /\ \A n \in (DOMAIN modes) \ mv_seen :
          /\ ModeOf(n).values = <<>>
          /\ ModeOf(n).value_range = NoRange
          /\ should_show_as_preset(ModeOf(n))
    /\ LastCallConsecutive => ~should_show_as_preset(ModeOf(last_call.name))

\* C8 witness: one mode without any modeValue entry beside one that became a slider
C8_Witness ==
    /\ LastCallConsecutive
    /\ Len(last_call.pushed) >= 2
    /\ \E n \in (DOMAIN modes) \ mv_seen : should_show_as_preset(ModeOf(n))
    /\ ~should_show_as_preset(ModeOf(last_call.name))

\* the (sku, mode name) pairs of the override table
HasOverride(sku, n) ==
    \/ sku \in {"H7160", "H7143"} /\ n = "Manual"
    \/ sku = "H7131" /\ n = "gearMode"
SkuInTable(sku) == sku \in {"H7160", "H7143", "H7131"}

\* C9 (as claimed): after with_device, gearMode on H7131 has the label field
\* "Heat", on any other SKU the label field of gearMode is its name, and every
\* mode without an override has its label field equal to its name.
C9_LabelFieldIsName ==
    presult = "ok" =>
       \A n \in DOMAIN modes :
          /\ (pdev.sku = "H7131" /\ n = "gearMode") => ModeOf(n).label = "Heat"
          /\ (pdev.sku # "H7131" /\ n = "gearMode") => ModeOf(n).label = ModeOf(n).name
          /\ ~HasOverride(pdev.sku, n) => ModeOf(n).label = ModeOf(n).name

\* C9 (amended): after with_device, gearMode on H7131 has the label field
\* "Heat"; on a SKU the table does not list, every mode's label field is its
\* name; on a SKU the table lists, a mode without an override keeps an empty
\* label field; and WorkMode::label() of every mode without an override is the
\* mode's name.
C9_LabelOverride ==
    presult = "ok" =>
       \A n \in DOMAIN modes :
          /\ (pdev.sku = "H7131" /\ n = "gearMode") => ModeOf(n).label = "Heat"
          /\ ~SkuInTable(pdev.sku) => ModeOf(n).label = ModeOf(n).name
          /\ (SkuInTable(pdev.sku) /\ ~HasOverride(pdev.sku, n)) => ModeOf(n).label = ""
          /\ ~HasOverride(pdev.sku, n) => label(ModeOf(n)) = ModeOf(n).name

\* C9 witness: H7131 with gearMode overridden and Manual left alone
C9_Witness ==
    /\ presult = "ok"
    /\ pdev.sku = "H7131"
    /\ DOMAIN modes = {"gearMode", "Manual"}
    /\ ModeOf("gearMode").label = "Heat"
    /\ ModeOf("Manual").label = ""

\* the three failures of with_device
NoPlatformInfo == ~pdev.http_device_info.some
NoWorkModeCapability == pdev.http_device_info.some /\ ~pdev.http_device_info.has_cap
NoWorkModeField ==
    /\ pdev.http_device_info.some /\ pdev.http_device_info.has_cap
    /\ pdev.http_device_info.workMode = "absent"

\* C10: with_device returns an error and no ParsedWorkMode exactly when the
\* device has no http_device_info, or no workMode capability, or the capability
\* has no workMode field; the call leaves its device argument and the registry
\* as they were.
C10_WithDeviceErrors ==
    [][(ppc = "with_device" /\ ppc' # "with_device")
       => /\ NoPlatformInfo
             => presult' = "no platform state, so no known work mode" /\ ppc' = "done"
          /\ NoWorkModeCapability
             => presult' = "device has no workMode capability" /\ ppc' = "done"
          /\ NoWorkModeField => presult' = "workMode not found" /\ ppc' = "done"
          /\ ~(NoPlatformInfo \/ NoWorkModeCapability \/ NoWorkModeField)
             => presult' = "none" /\ ppc' # "done"
          /\ presult' # "ok"
          /\ modes' = EmptyModes
          /\ pdev' = pdev
          /\ registry' = registry]_vars

\* C10 witness: the capability is there but has no workMode field, and parsing failed
C10_Witness ==
    /\ ppc = "done"
    /\ NoWorkModeField
    /\ pdev.http_device_info.modeValue = "enum"
    /\ presult = "workMode not found"
    /\ modes = EmptyModes



\* this step is the modeValue loop taking an option whose name is no mode
UnknownModeValue == ppc = "modeValue" /\ fed' # fed /\ mv_last' \notin DOMAIN modes

\* C20: the modes of a ParsedWorkMode are keyed by exactly the names of the
\* workMode options consumed, each holding its own name and the value of the
\* option of that name (the last one, when a name is listed twice); the
\* modeValue loop adds or removes no mode, and an option of it whose name is no
\* mode leaves every mode as it was.
C20_ModesAreWorkModeOptions ==
    [][/\ DOMAIN modes' = DOMAIN wm_seen'
       /\ \A n \in DOMAIN modes' : modes'[n].name = n /\ modes'[n].value = wm_seen'[n]
       /\ ppc = "modeValue" => DOMAIN modes' = DOMAIN modes
       /\ UnknownModeValue => modes' = modes]_vars

\* C20 witness: with_device is done with a mode for each of two workMode
\* options after the modeValue field named a mode, Fan, that is none of them
C20_Witness ==
    /\ ppc = "done" /\ presult = "ok"
    /\ DOMAIN modes = {"gearMode", "Manual"}
    /\ modes["Manual"].value = JsonInt(2)
    /\ "Fan" \in mv_seen
    /\ mv_seen \cap DOMAIN modes # {}

\* the last add_values call found neither a range nor an options list it could parse
LastCallNothingParsed ==
    /\ last_call.called
    /\ last_call.extras_range.tag # "ok"
    /\ last_call.extras_options # "ok"

\* the last add_values call found a range it could not parse next to an options list
LastCallMalformedRange ==
    /\ last_call.called
    /\ last_call.extras_range.tag = "malformed"
    /\ last_call.extras_options = "ok"

\* the values a list of sub-options adds, labels not yet computed
ValuesOf(list) == [i \in DOMAIN list |-> WorkModeValue(list[i].value, list[i].name, "")]

\* two lists of values hold the same values and names
SameEntries(a, b) ==
    /\ Len(a) = Len(b)
    /\ \A i \in DOMAIN a : a[i].value = b[i].value /\ a[i].name = b[i].name

\* C21: an add_values call whose extras hold neither a range nor an options
\* list that parses leaves the mode's values and value_range as they were on
\* entry, and with_device still returns Ok; a call whose range does not parse
\* but whose options list does goes on as if there were no range: the list's
\* entries are pushed after the values already there, and the mode ends either
\* with them or, when they are unnamed consecutive integers, with their range.
C21_MalformedExtrasIgnored ==
    /\ last_call.called => presult \in {"none", "ok"}
    /\ (last_call.called /\ ppc = "done") => presult = "ok"
    /\ LastCallNothingParsed
       => /\ SameEntries(modes[last_call.name].values, last_call.before_values)
          /\ modes[last_call.name].value_range = last_call.before_range
    /\ LastCallMalformedRange
       => /\ SameEntries(last_call.pushed,
                         last_call.before_values \o ValuesOf(last_call.extras_list))
          /\ IF last_call.range.some
             THEN /\ modes[last_call.name].values = <<>>
                  /\ modes[last_call.name].value_range = last_call.range
             ELSE /\ SameEntries(modes[last_call.name].values, last_call.pushed)
                  /\ modes[last_call.name].value_range = last_call.before_range

\* C21 witness: with_device returned Ok after a call with a range and an
\* options entry that both fail to parse, made on a mode that already held a
\* value, which it still holds
C21_Witness ==
    /\ ppc = "done" /\ presult = "ok"
    /\ last_call.called
    /\ last_call.extras_range.tag = "malformed"
    /\ last_call.extras_options = "malformed"
    /\ last_call.before_values # <<>>
    /\ SameEntries(modes[last_call.name].values, last_call.before_values)

====
